---- MODULE Spec2Model ----
(***************************************************************************)
(* Session store and lifecycle manager of the data summary API             *)
(* (src/app/utils/session_security.py), the background sweep               *)
(* (src/app/utils/session_manager.py) and the route handlers that touch    *)
(* session records.                                                        *)
(*                                                                         *)
(* The service runs its synchronous route handlers on a thread pool and    *)
(* the sweep on a daemon thread (src/app/main.py:100), all sharing one     *)
(* SessionSecurity instance that holds no lock.  Every operation is        *)
(* therefore modelled statement by statement; a thread switch can fall     *)
(* between any two statements.  Two specifications run the same steps:     *)
(*   Spec      operations one at a time (an operation runs to its return   *)
(*             before another starts): the sequential contract;            *)
(*   ConcSpec  request threads and the sweep thread freely interleaved.    *)
(* upload_file, the one caller of create_session and update_session, is    *)
(* the one coroutine handler: it runs on the event loop and has no await   *)
(* after file.read(), so two uploads never interleave past that point,     *)
(* while worker threads and the sweep run alongside it (LoopFree).         *)
(* UploadSpec and TableSpec run uploads and missing-value requests; the    *)
(* parsers are pure and run under ParseSpec, SampleSpec, EncSpec and       *)
(* ValidSpec.                                                              *)
(*                                                                         *)
(* Modelling conventions                                                   *)
(*  - A session_data dict is an object on the heap (objs).  The dict       *)
(*    self.sessions is the insertion-ordered sequence of its keys; the     *)
(*    value under key k is the object allocated for k by create_session,   *)
(*    the only statement that stores into self.sessions.                   *)
(*  - secrets.token_urlsafe(32) is idealised as returning a token that     *)
(*    was never returned before (256 random bits).                         *)
(*  - Time is an integer clock that never runs backwards.                  *)
(*  - session_id, filename, filetype and created_time are written once by  *)
(*    create_session and never read by the operations; they are left out.  *)
(***************************************************************************)
EXTENDS Integers, Sequences, FiniteSets, TLC

\* ------------------------------------------------------------------ bounds
MaxIds    == 2      \* tokens the generator can hand out
MaxTime   == 1      \* last value of the clock
MaxExpiry == 1      \* largest expiry_seconds passed to the sweep
MaxCalls  == 3      \* requests and sweeps started in one concurrent run
MaxLoopCalls == 2   \* requests started beside the cleanup loop that runs for ever
MaxLive   == 201    \* sessions created in a run that only creates
MaxRows   == 204    \* data rows of a parsed file
MaxChunk  == 2      \* largest chunk_size passed to the parser
MaxLines  == 2      \* newlines in the first SAMPLE_BYTES bytes of a file
MaxSmallRows == 3   \* data rows of a file in the sampling and encoding runs
MaxSample == 2      \* largest sample_rows passed to the parser

\* "Maximum 200 sessions per instance" (the API description in main.py).
SESSION_LIMIT == 200

\* _count_csv_rows looks at the first 1024 bytes.
SAMPLE_BYTES == 1024

\* _read_csv_in_chunks: if len(chunks) > 100: break
CHUNK_LIMIT == 100

Ids      == 1..MaxIds
Clients  == {"a", "b"}
Threads  == {"t1", "t2"}
RowCounts == {0, 1}
ColCounts == {1}

\* ------------------------------------------------------------------ values
None == [kind |-> "None"]

\* A parsed table (pandas DataFrame): its number of rows, how many of them hold
\* a missing value, and its number of columns.
Tables == {d \in [kind : {"df"}, rows : RowCounts, missing : RowCounts,
                  cols : ColCounts] : d.missing <= d.rows}

\* What an operation hands back to its caller.
RetNone        == [kind |-> "None"]
RetSession(r)  == [kind |-> "session", ref |-> r]
RetBool(b)     == [kind |-> "bool", val |-> b]
RetId(i)       == [kind |-> "id", id |-> i]
RetOk          == [kind |-> "ok"]
RetRaise(e)    == [kind |-> "raise", exc |-> e]
RetList(l)     == [kind |-> "list", refs |-> l]

NoRef == 0      \* no session: an unset local, a token that was never issued

\* --------------------------------------------------------- python containers
SeqToSet(s) == {s[i] : i \in 1..Len(s)}

\* list.remove(x): drops the first occurrence; ValueError (swallowed by the
\* callers' try/except) leaves the list as it is.
ListRemove(s, x) ==
    IF x \notin SeqToSet(s) THEN s
    ELSE LET i == CHOOSE j \in 1..Len(s) :
                      s[j] = x /\ \A k \in 1..(j - 1) : s[k] # x
         IN  SubSeq(s, 1, i - 1) \o SubSeq(s, i + 1, Len(s))

\* d[k] = v on an insertion-ordered dict of keys: a key already present keeps
\* its place, a new key goes last.
DictStore(d, k) == IF k \in SeqToSet(d) THEN d ELSE Append(d, k)

\* del d[k] for a key that is present.
DictDel(d, k) == SelectSeq(d, LAMBDA x : x # k)

\* -------------------------------------------------------------------- state
VARIABLES
    sessions,         \* self.sessions: the live session ids, in insertion order
    objs,             \* heap: allocated session id -> its session_data dict
    client_sessions,  \* self.client_sessions: client_ip -> list of session ids
    now,              \* the wall clock read by datetime.now(timezone.utc)
    th,               \* request threads: position, arguments, locals, result
    sw,               \* the cleanup thread: position and locals
    serial,           \* TRUE: operations run one at a time (Spec)
    calls,            \* requests and sweeps started so far in a concurrent run
    pre,              \* history: the store when the running operation started (Spec)
    deleted,          \* history: id removed from self.sessions -> "delete" or "sweep"
    creator,          \* history: id -> client_ip passed to the create that made it
    last,             \* history, kept when last.track: id -> keyword arguments of
                      \* the latest update on it
    parser            \* a call of a parser: arguments, position, locals

vars == <<sessions, objs, client_sessions, now, th, sw, serial, calls, pre,
          deleted, creator, last, parser>>

\* Everything but the parser call.
storeVars == <<sessions, objs, client_sessions, now, th, sw, serial, calls, pre,
               deleted, creator, last>>

Live == SeqToSet(sessions)

\* A session_data dict that records a fixed client instead of the caller.
NewSessionDataFixedClient(c, t) ==
    [client_ip |-> "a", last_access_time |-> t,
     df |-> None, row_count |-> 0, column_count |-> 0]

\* The session_data dict built by create_session for client c at time t.
NewSessionData(c, t) ==
    [client_ip |-> c, last_access_time |-> t,
     df |-> None, row_count |-> 0, column_count |-> 0]

\* The list a for loop of get_client_sessions runs over: none yet, the list
\* object now stored under client_sessions[client_ip], or a list object that
\* create_session has since replaced there (nothing changes it any more).
NoIter      == [kind |-> "none"]
BoundIter   == [kind |-> "bound"]
Orphaned(l) == [kind |-> "orphaned", items |-> l]

\* A thread of the pool between two requests.
IdleThread ==
    [pc |-> "idle", op |-> "none", session_id |-> NoRef, client_ip |-> "a",
     updates |-> <<>>, strategy |-> "skip", session |-> NoRef, t_now |-> 0,
     df |-> None, left |-> <<>>, gone |-> FALSE, ret |-> RetOk,
     iter |-> NoIter, pos |-> 0, valid_sessions |-> <<>>, fails |-> FALSE]

\* The cleanup thread asleep between two sweeps.
IdleSweep ==
    [pc |-> "sleep", expiry |-> 0, s_now |-> 0, items |-> <<>>, expired |-> <<>>,
     client_ip |-> "a", status |-> "none"]

Snapshot ==
    [sessions |-> sessions, objs |-> objs, client_sessions |-> client_sessions]

NoSnapshot ==
    [sessions |-> <<>>, objs |-> <<>>, client_sessions |-> <<>>]

\* SessionSecurity.__init__ and the idle threads.
Started ==
    /\ sessions = <<>>
    /\ objs = <<>>
    /\ client_sessions = <<>>
    /\ now = 0
    /\ th = [t \in Threads |-> IdleThread]
    /\ sw = IdleSweep
    /\ calls = 0
    /\ pre = NoSnapshot
    /\ deleted = <<>>
    /\ creator = <<>>

NoUpdates == <<>>

\* No parser call is running.
NoParse == [pc |-> "none"]

Init ==
    /\ Started
    /\ serial = TRUE
    /\ last = [track |-> FALSE, updates |-> NoUpdates]
    /\ parser = NoParse

\* Operations one at a time, with the history of updates kept.
HistInit ==
    /\ Started
    /\ serial = TRUE
    /\ last = [track |-> TRUE, updates |-> NoUpdates]
    /\ parser = NoParse

ConcInit ==
    /\ Started
    /\ serial = FALSE
    /\ last = [track |-> FALSE, updates |-> NoUpdates]
    /\ parser = NoParse

\* --------------------------------------------------------------- scheduling
\* Thread t may take its next step.
MayRun(t) ==
    serial => (sw.pc = "sleep" /\ \A u \in Threads \ {t} : th[u].pc = "idle")

\* The cleanup thread may take its next step.
MaySweep == serial => \A t \in Threads : th[t].pc = "idle"

\* A new request or sweep may start: a concurrent run is cut off after
\* MaxCalls of them.
MayStart == serial \/ calls < MaxCalls

\* The pool hands a request to its first free thread.
FirstFree(t) ==
    /\ th[t].pc = "idle"
    /\ t = "t2" => th["t1"].pc # "idle"

\* The clock advances.
Tick ==
    /\ now < MaxTime
    /\ now' = now + 1
    /\ UNCHANGED <<sessions, objs, client_sessions, th, sw, serial, parser, last, calls, pre,
                   deleted, creator>>

\* ------------------------------------------------------- request arguments
\* Keyword arguments of update_session, in the order they are written: the
\* upload route's call (df, row_count, column_count) and a df alone.
UploadUpdates(d) ==
    << <<"df", d>>, <<"row_count", d.rows>>, <<"column_count", d.cols>> >>

UpdateChoices ==
    {UploadUpdates(d) : d \in {x \in Tables : x.rows >= 1}}
        \cup {<< <<"df", d>> >> : d \in {x \in Tables : x.rows = 0}}

Strategies == {"skip", "fill_mean"}

\* handle_missing_values: "skip" drops the rows that hold a missing value, the
\* fill strategies keep every row and fill the holes.
handle_missing_values(d, strategy) ==
    IF strategy = "skip"
    THEN [d EXCEPT !.rows = d.rows - d.missing, !.missing = 0]
    ELSE [d EXCEPT !.missing = 0]

\* A token generator that can return a token it has returned before.
RepeatedTokens == Ids

\* secrets.token_urlsafe(32): the tokens it can return next.
FreshTokens == Ids \ DOMAIN objs

\* The session ids a request can carry.  Tokens cannot be guessed: a client
\* presents an id that a finished create has returned (to it or to someone who
\* passed it on), or a string that is no issued token at all.
Published ==
    {id \in DOMAIN objs :
        \A t \in Threads :
            (th[t].op \in {"create", "upload"} /\ th[t].session_id = id)
                => th[t].pc = "done"}

Presentable == Published \cup {NoRef}

\* ------------------------------------------------------------ thread steps
\* A request arrives on thread t; its first statement has not run yet.
Begin(t, op, pc, sid, c, u, st) ==
    /\ FirstFree(t)
    /\ MayRun(t)
    /\ MayStart
    /\ calls' = IF serial THEN calls ELSE calls + 1
    /\ th' = [th EXCEPT ![t] =
                 [IdleThread EXCEPT !.pc = pc, !.op = op, !.session_id = sid,
                                    !.client_ip = c, !.updates = u, !.left = u,
                                    !.strategy = st, !.gone = (sid \in DOMAIN deleted)]]
    /\ pre' = IF serial THEN Snapshot ELSE pre
    /\ UNCHANGED <<sessions, objs, client_sessions, now, sw, serial, parser, last, deleted, creator>>

\* A create is started only while a token is left for it to draw.
CallCreate(t) ==
    /\ Cardinality(FreshTokens) > Cardinality({u \in Threads : th[u].pc = "cr_alloc"})
    /\ \E c \in Clients : Begin(t, "create", "cr_alloc", NoRef, c, <<>>, "skip")

CallGet(t) ==
    \E sid \in Presentable, c \in Clients : Begin(t, "get", "get_check", sid, c, <<>>, "skip")

CallUpdate(t) ==
    \E sid \in Presentable, c \in Clients, u \in UpdateChoices :
        Begin(t, "update", "get_check", sid, c, u, "skip")

CallDelete(t) ==
    \E sid \in Presentable, c \in Clients : Begin(t, "delete", "get_check", sid, c, <<>>, "skip")

CallHandle(t) ==
    \E sid \in Presentable, c \in Clients, st \in Strategies :
        Begin(t, "handle", "get_check", sid, c, <<>>, st)

CallList(t) ==
    \E c \in Clients : Begin(t, "list", "list_check", NoRef, c, <<>>, "skip")

\* Thread t returns r (or raises) to its caller and drops its locals.
Returned(t, r) ==
    [th[t] EXCEPT !.pc = "done", !.ret = r, !.session = NoRef, !.t_now = 0,
                  !.df = None, !.left = <<>>,
                  !.iter = NoIter, !.pos = 0, !.valid_sessions = <<>>]

\* The function f without the keys that are not in S.
Restrict(f, S) == [k \in DOMAIN f \cap S |-> f[k]]

\* History: the latest update of each live session, as long as its owner has
\* run no other operation on the session since.
LastAfter(t) ==
    LET sid == th[t].session_id
    IN  IF th[t].op = "update" /\ th[t].ret = RetBool(TRUE)
        THEN (sid :> th[t].updates) @@ last.updates
        ELSE IF /\ th[t].op \in {"get", "delete", "handle"}
                /\ sid \in DOMAIN creator
                /\ creator[sid] = th[t].client_ip
             THEN Restrict(last.updates, DOMAIN last.updates \ {sid})
             ELSE last.updates

\* The caller has its answer; thread t is free for the next request.
Return(t) ==
    /\ th[t].pc = "done"
    /\ MayRun(t)
    /\ th' = [th EXCEPT ![t] = IdleThread]
    /\ pre' = NoSnapshot
    /\ last' = IF last.track
               THEN [last EXCEPT !.updates = Restrict(LastAfter(t), Live)]
               ELSE last
    /\ UNCHANGED <<sessions, objs, client_sessions, now, sw, serial, parser, calls,
                   deleted, creator>>

\* update_session returns to its caller: True to a client of the store;
\* upload_file drops the value (True or False) and goes on.
AfterUpdate(t, b) ==
    IF th[t].op = "upload"
    THEN [th[t] EXCEPT !.pc = "up_respond", !.left = <<>>]
    ELSE Returned(t, RetBool(b))

\* get_session returned None to the operation that called it.
AfterGetNone(t) ==
    CASE th[t].op = "get"    -> Returned(t, RetNone)
      [] th[t].op = "handle" -> Returned(t, RetRaise("SessionNotFoundError"))
      [] OTHER               -> AfterUpdate(t, FALSE)

\* get_session returned the session object to the operation that called it.
AfterGetSession(t) ==
    CASE th[t].op = "get"    -> Returned(t, RetSession(th[t].session))
      [] th[t].op \in {"update", "upload"} ->
                                IF th[t].left = <<>>
                                THEN AfterUpdate(t, TRUE)
                                ELSE [th[t] EXCEPT !.pc = "upd_set"]
      [] th[t].op = "delete" -> [th[t] EXCEPT !.pc = "del_store"]
      [] OTHER               -> [th[t] EXCEPT !.pc = "h_read"]

\* get_session: if session_id not in self.sessions: return None
GetCheck(t) ==
    /\ th[t].pc = "get_check"
    /\ MayRun(t)
    /\ th' = [th EXCEPT ![t] =
                 IF th[t].session_id \notin Live
                 THEN AfterGetNone(t)
                 ELSE [th[t] EXCEPT !.pc = "get_lookup"]]
    /\ UNCHANGED <<sessions, objs, client_sessions, now, sw, serial, parser, last, calls, pre,
                   deleted, creator>>

\* get_session: session = self.sessions[session_id]   (KeyError when gone)
GetLookup(t) ==
    /\ th[t].pc = "get_lookup"
    /\ MayRun(t)
    /\ th' = [th EXCEPT ![t] =
                 IF th[t].session_id \notin Live
                 THEN Returned(t, RetRaise("KeyError"))
                 ELSE [th[t] EXCEPT !.pc = "get_owner", !.session = th[t].session_id]]
    /\ UNCHANGED <<sessions, objs, client_sessions, now, sw, serial, parser, last, calls, pre,
                   deleted, creator>>

\* A get_session that hands the record to any requester.
HasAccessAnyone(session, client_ip) == TRUE

\* The owner test of get_session.
HasAccess(session, client_ip) == session.client_ip = client_ip

\* A get_session that refreshes the timestamp before it tests the owner.
GetOwnerTouches(t) ==
    /\ th[t].pc = "get_owner"
    /\ MayRun(t)
    /\ objs' = [objs EXCEPT ![th[t].session].last_access_time = now]
    /\ th' = [th EXCEPT ![t] =
                 IF ~HasAccess(objs[th[t].session], th[t].client_ip)
                 THEN AfterGetNone(t)
                 ELSE [th[t] EXCEPT !.pc = "get_now"]]
    /\ UNCHANGED <<sessions, client_sessions, now, sw, serial, parser, last, calls, pre,
                   deleted, creator>>

\* get_session: if session['client_ip'] != client_ip: return None
GetOwner(t) ==
    /\ th[t].pc = "get_owner"
    /\ MayRun(t)
    /\ th' = [th EXCEPT ![t] =
                 IF ~HasAccess(objs[th[t].session], th[t].client_ip)
                 THEN AfterGetNone(t)
                 ELSE [th[t] EXCEPT !.pc = "get_now"]]
    /\ UNCHANGED <<sessions, objs, client_sessions, now, sw, serial, parser, last, calls, pre,
                   deleted, creator>>

\* get_session: datetime.now(timezone.utc) is evaluated ...
GetNow(t) ==
    /\ th[t].pc = "get_now"
    /\ MayRun(t)
    /\ th' = [th EXCEPT ![t] = [th[t] EXCEPT !.pc = "get_store", !.t_now = now]]
    /\ UNCHANGED <<sessions, objs, client_sessions, now, sw, serial, parser, last, calls, pre,
                   deleted, creator>>

\* A get_session that also resets the stored row count.
GetStoreResets(t) ==
    /\ th[t].pc = "get_store"
    /\ MayRun(t)
    /\ objs' = [objs EXCEPT ![th[t].session].last_access_time = th[t].t_now,
                            ![th[t].session].row_count = 0]
    /\ th' = [th EXCEPT ![t] = AfterGetSession(t)]
    /\ UNCHANGED <<sessions, client_sessions, now, sw, serial, parser, last, calls, pre,
                   deleted, creator>>

\* ... and stored: session['last_access_time'] = <that value>; return session
GetStore(t) ==
    /\ th[t].pc = "get_store"
    /\ MayRun(t)
    /\ objs' = [objs EXCEPT ![th[t].session].last_access_time = th[t].t_now]
    /\ th' = [th EXCEPT ![t] = AfterGetSession(t)]
    /\ UNCHANGED <<sessions, client_sessions, now, sw, serial, parser, last, calls, pre,
                   deleted, creator>>

\* An update_session that returns after the first keyword argument.
UpdSetFirstOnly(t) ==
    /\ th[t].pc = "upd_set"
    /\ MayRun(t)
    /\ LET kv == Head(th[t].left)
       IN  objs' = [objs EXCEPT ![th[t].session] = [@ EXCEPT ![kv[1]] = kv[2]]]
    /\ th' = [th EXCEPT ![t] = Returned(t, RetBool(TRUE))]
    /\ UNCHANGED <<sessions, client_sessions, now, sw, serial, parser, last, calls, pre,
                   deleted, creator>>

\* An update_session that also stores the record back under its id.
UpdSetSaves(t) ==
    /\ th[t].pc = "upd_set"
    /\ MayRun(t)
    /\ LET kv == Head(th[t].left)
       IN  objs' = [objs EXCEPT ![th[t].session] = [@ EXCEPT ![kv[1]] = kv[2]]]
    /\ sessions' = DictStore(sessions, th[t].session_id)
    /\ th' = [th EXCEPT ![t] =
                 IF Tail(th[t].left) = <<>>
                 THEN Returned(t, RetBool(TRUE))
                 ELSE [th[t] EXCEPT !.left = Tail(th[t].left)]]
    /\ UNCHANGED <<client_sessions, now, sw, serial, parser, last, calls, pre, deleted, creator>>

\* update_session: session[key] = value, one keyword argument per step
UpdSet(t) ==
    /\ th[t].pc = "upd_set"
    /\ MayRun(t)
    /\ LET kv == Head(th[t].left)
       IN  objs' = [objs EXCEPT ![th[t].session] = [@ EXCEPT ![kv[1]] = kv[2]]]
    /\ th' = [th EXCEPT ![t] =
                 IF Tail(th[t].left) = <<>>
                 THEN AfterUpdate(t, TRUE)
                 ELSE [th[t] EXCEPT !.left = Tail(th[t].left)]]
    /\ UNCHANGED <<sessions, client_sessions, now, sw, serial, parser, last, calls, pre,
                   deleted, creator>>

\* delete_session: del self.sessions[session_id]   (KeyError when gone)
DelStore(t) ==
    /\ th[t].pc = "del_store"
    /\ MayRun(t)
    /\ IF th[t].session_id \in Live
       THEN /\ sessions' = DictDel(sessions, th[t].session_id)
            /\ deleted' = (th[t].session_id :> "delete") @@ deleted
            /\ th' = [th EXCEPT ![t] = [th[t] EXCEPT !.pc = "del_index"]]
       ELSE /\ th' = [th EXCEPT ![t] = Returned(t, RetRaise("KeyError"))]
            /\ UNCHANGED <<sessions, deleted>>
    /\ UNCHANGED <<objs, client_sessions, now, sw, serial, parser, last, calls, pre, creator>>

\* A removal that leaves the index as it is.
IndexRemoveKeeps(index, client_ip, session_id) == index

\* if client_ip in self.client_sessions:
\*     try: self.client_sessions[client_ip].remove(session_id)
\*     except ValueError: pass
IndexRemove(index, client_ip, session_id) ==
    IF client_ip \in DOMAIN index
    THEN [index EXCEPT ![client_ip] = ListRemove(@, session_id)]
    ELSE index

\* A delete_session that leaves the owner's index alone.
DelIndexSkipped(t) ==
    /\ th[t].pc = "del_index"
    /\ MayRun(t)
    /\ th' = [th EXCEPT ![t] = Returned(t, RetBool(TRUE))]
    /\ UNCHANGED <<sessions, objs, client_sessions, now, sw, serial, parser, last, calls, pre,
                   deleted, creator>>

\* delete_session: the index entry goes, then return True
DelIndex(t) ==
    /\ th[t].pc = "del_index"
    /\ MayRun(t)
    /\ client_sessions' = IndexRemove(client_sessions, th[t].client_ip, th[t].session_id)
    /\ th' = [th EXCEPT ![t] = Returned(t, RetBool(TRUE))]
    /\ UNCHANGED <<sessions, objs, now, sw, serial, parser, last, calls, pre, deleted, creator>>

\* create_session: the token is drawn and the session_data dict is built
CrAlloc(t) ==
    /\ th[t].pc = "cr_alloc"
    /\ MayRun(t)
    /\ \E id \in FreshTokens :
          /\ objs' = (id :> NewSessionData(th[t].client_ip, now)) @@ objs
          /\ creator' = (id :> th[t].client_ip) @@ creator
          /\ th' = [th EXCEPT ![t] =
                       [th[t] EXCEPT !.pc = "cr_store", !.session_id = id, !.session = id]]
    /\ UNCHANGED <<sessions, client_sessions, now, sw, serial, parser, last, calls, pre, deleted>>

\* create_session: self.sessions[session_id] = session_data
CrStore(t) ==
    /\ th[t].pc = "cr_store"
    /\ MayRun(t)
    /\ sessions' = DictStore(sessions, th[t].session_id)
    /\ th' = [th EXCEPT ![t] = [th[t] EXCEPT !.pc = "cr_index_check"]]
    /\ UNCHANGED <<objs, client_sessions, now, sw, serial, parser, last, calls, pre, deleted, creator>>

\* create_session: if client_ip not in self.client_sessions:
CrIndexCheck(t) ==
    /\ th[t].pc = "cr_index_check"
    /\ MayRun(t)
    /\ th' = [th EXCEPT ![t] =
                 [th[t] EXCEPT !.pc = IF th[t].client_ip \notin DOMAIN client_sessions
                                      THEN "cr_index_init"
                                      ELSE "cr_index_append"]]
    /\ UNCHANGED <<sessions, objs, client_sessions, now, sw, serial, parser, last, calls, pre,
                   deleted, creator>>

\* create_session: self.client_sessions[client_ip] = []
CrIndexInit(t) ==
    /\ th[t].pc = "cr_index_init"
    /\ MayRun(t)
    /\ client_sessions' =
          IF th[t].client_ip \in DOMAIN client_sessions
          THEN [client_sessions EXCEPT ![th[t].client_ip] = <<>>]
          ELSE (th[t].client_ip :> <<>>) @@ client_sessions
    /\ th' = [u \in Threads |->
                 IF u = t
                 THEN [th[t] EXCEPT !.pc = "cr_index_append"]
                 ELSE IF /\ th[u].iter = BoundIter
                         /\ th[u].client_ip = th[t].client_ip
                         /\ th[t].client_ip \in DOMAIN client_sessions
                      THEN [th[u] EXCEPT
                               !.iter = Orphaned(client_sessions[th[t].client_ip])]
                      ELSE th[u]]
    /\ UNCHANGED <<sessions, objs, now, sw, serial, parser, last, calls, pre, deleted, creator>>

\* create_session: self.client_sessions[client_ip].append(session_id); return
CrIndexAppend(t) ==
    /\ th[t].pc = "cr_index_append"
    /\ MayRun(t)
    /\ client_sessions' =
          [client_sessions EXCEPT ![th[t].client_ip] = Append(@, th[t].session_id)]
    /\ th' = [th EXCEPT ![t] = IF th[t].op = "upload"
                               THEN [th[t] EXCEPT !.pc = "up_analyze"]
                               ELSE Returned(t, RetId(th[t].session_id))]
    /\ UNCHANGED <<sessions, objs, now, sw, serial, parser, last, calls, pre, deleted, creator>>

\* What an upload request brings: the table parse_file_contents makes of the
\* file, or None when validate_upload_file or parse_file_contents raises; and
\* whether a step after create_session raises (get_memory_usage_estimate
\* does on a table with a column named Index).
UploadInputs == [parsed : {d \in Tables : d.rows >= 1} \cup {None}, fails : BOOLEAN]

\* An upload request arrives and waits in await file.read().
CallUpload(t) ==
    /\ FirstFree(t)
    /\ MayRun(t)
    /\ MayStart
    /\ Cardinality(FreshTokens) >
          Cardinality({u \in Threads : th[u].op = "upload" /\ th[u].pc # "done"
                                          /\ th[u].session_id = NoRef})
    /\ \E c \in Clients, input \in UploadInputs :
          th' = [th EXCEPT ![t] =
                    [IdleThread EXCEPT !.pc = "up_read", !.op = "upload",
                                       !.client_ip = c, !.df = input.parsed,
                                       !.fails = input.fails]]
    /\ calls' = IF serial THEN calls ELSE calls + 1
    /\ pre' = IF serial THEN Snapshot ELSE pre
    /\ UNCHANGED <<sessions, objs, client_sessions, now, sw, serial, parser, last,
                   deleted, creator>>

\* upload_file: the contents are read, validated and parsed; an error of
\* either step ends the request
UpParse(t) ==
    /\ th[t].pc = "up_read"
    /\ MayRun(t)
    /\ th' = [th EXCEPT ![t] =
                 IF th[t].df = None
                 THEN Returned(t, RetRaise("FileReadError"))
                 ELSE [th[t] EXCEPT !.pc = "cr_alloc"]]
    /\ UNCHANGED <<sessions, objs, client_sessions, now, sw, serial, parser, last, calls,
                   pre, deleted, creator>>

\* upload_file after create_session: the shape, get_memory_usage_estimate and
\* get_data_types_summary; an exception of theirs becomes a 500 response;
\* then update_session(session_id, client_ip, df=..., row_count=..., ...)
UpAnalyze(t) ==
    /\ th[t].pc = "up_analyze"
    /\ MayRun(t)
    /\ th' = [th EXCEPT ![t] =
                 IF th[t].fails
                 THEN [Returned(t, RetRaise("HTTPException")) EXCEPT !.fails = FALSE]
                 ELSE [th[t] EXCEPT !.pc = "get_check",
                                    !.updates = UploadUpdates(th[t].df),
                                    !.left = UploadUpdates(th[t].df)]]
    /\ UNCHANGED <<sessions, objs, client_sessions, now, sw, serial, parser, last, calls,
                   pre, deleted, creator>>

\* upload_file: the response is built and returned
UpRespond(t) ==
    /\ th[t].pc = "up_respond"
    /\ MayRun(t)
    /\ th' = [th EXCEPT ![t] = Returned(t, RetId(th[t].session_id))]
    /\ UNCHANGED <<sessions, objs, client_sessions, now, sw, serial, parser, last, calls,
                   pre, deleted, creator>>

\* handle_missing_values_endpoint: df = session.get('df'); the empty-table
\* test; df_processed = handle_missing_values(df, strategy, columns_list)
HRead(t) ==
    /\ th[t].pc = "h_read"
    /\ MayRun(t)
    /\ LET df == objs[th[t].session].df
       IN  th' = [th EXCEPT ![t] =
                     IF df = None \/ df.rows = 0
                     THEN Returned(t, RetRaise("DataValidationError"))
                     ELSE [th[t] EXCEPT !.pc = "h_set_df",
                                        !.df = handle_missing_values(df, th[t].strategy)]]
    /\ UNCHANGED <<sessions, objs, client_sessions, now, sw, serial, parser, last, calls, pre,
                   deleted, creator>>

\* handle_missing_values_endpoint: session['df'] = df_processed
HSetDf(t) ==
    /\ th[t].pc = "h_set_df"
    /\ MayRun(t)
    /\ objs' = [objs EXCEPT ![th[t].session].df = th[t].df]
    /\ th' = [th EXCEPT ![t] = [th[t] EXCEPT !.pc = "h_set_rows"]]
    /\ UNCHANGED <<sessions, client_sessions, now, sw, serial, parser, last, calls, pre,
                   deleted, creator>>

\* handle_missing_values_endpoint: session['row_count'] = len(df_processed)
HSetRows(t) ==
    /\ th[t].pc = "h_set_rows"
    /\ MayRun(t)
    /\ objs' = [objs EXCEPT ![th[t].session].row_count = th[t].df.rows]
    /\ th' = [th EXCEPT ![t] = Returned(t, RetOk)]
    /\ UNCHANGED <<sessions, client_sessions, now, sw, serial, parser, last, calls, pre,
                   deleted, creator>>

\* get_client_sessions: if client_ip not in self.client_sessions: return []
ListCheck(t) ==
    /\ th[t].pc = "list_check"
    /\ MayRun(t)
    /\ th' = [th EXCEPT ![t] =
                 IF th[t].client_ip \notin DOMAIN client_sessions
                 THEN Returned(t, RetList(<<>>))
                 ELSE [th[t] EXCEPT !.pc = "list_iter"]]
    /\ UNCHANGED <<sessions, objs, client_sessions, now, sw, serial, parser, last, calls, pre,
                   deleted, creator>>

\* get_client_sessions: valid_sessions = []; the for statement evaluates
\* self.client_sessions[client_ip] and starts to iterate over that list
ListIter(t) ==
    /\ th[t].pc = "list_iter"
    /\ MayRun(t)
    /\ th' = [th EXCEPT ![t] = [th[t] EXCEPT !.pc = "list_next", !.iter = BoundIter]]
    /\ UNCHANGED <<sessions, objs, client_sessions, now, sw, serial, parser, last, calls, pre,
                   deleted, creator>>

\* The list the loop of thread t runs over, as it is now.
IterList(t) ==
    IF th[t].iter = BoundIter
    THEN client_sessions[th[t].client_ip]
    ELSE th[t].iter.items

\* A loop that steps over every other entry of the list.
ListNextStrides(t) ==
    /\ th[t].pc = "list_next"
    /\ MayRun(t)
    /\ th' = [th EXCEPT ![t] =
                 IF th[t].pos < Len(IterList(t))
                 THEN [th[t] EXCEPT !.pc = "list_test",
                                    !.session_id = IterList(t)[th[t].pos + 1],
                                    !.pos = th[t].pos + 2]
                 ELSE [Returned(t, RetList(th[t].valid_sessions))
                          EXCEPT !.session_id = NoRef]]
    /\ UNCHANGED <<sessions, objs, client_sessions, now, sw, serial, parser, last, calls, pre,
                   deleted, creator>>

\* get_client_sessions: the for statement takes the next session_id, or the
\* list is exhausted: return valid_sessions
ListNext(t) ==
    /\ th[t].pc = "list_next"
    /\ MayRun(t)
    /\ th' = [th EXCEPT ![t] =
                 IF th[t].pos < Len(IterList(t))
                 THEN [th[t] EXCEPT !.pc = "list_test",
                                    !.session_id = IterList(t)[th[t].pos + 1],
                                    !.pos = th[t].pos + 1]
                 ELSE [Returned(t, RetList(th[t].valid_sessions))
                          EXCEPT !.session_id = NoRef]]
    /\ UNCHANGED <<sessions, objs, client_sessions, now, sw, serial, parser, last, calls, pre,
                   deleted, creator>>

\* get_client_sessions: if session_id in self.sessions:
ListTest(t) ==
    /\ th[t].pc = "list_test"
    /\ MayRun(t)
    /\ th' = [th EXCEPT ![t] =
                 [th[t] EXCEPT !.pc = IF th[t].session_id \in Live
                                      THEN "list_append"
                                      ELSE "list_next"]]
    /\ UNCHANGED <<sessions, objs, client_sessions, now, sw, serial, parser, last, calls, pre,
                   deleted, creator>>

\* get_client_sessions: valid_sessions.append(self.sessions[session_id])
\* (KeyError when gone)
ListAppend(t) ==
    /\ th[t].pc = "list_append"
    /\ MayRun(t)
    /\ th' = [th EXCEPT ![t] =
                 IF th[t].session_id \notin Live
                 THEN Returned(t, RetRaise("KeyError"))
                 ELSE [th[t] EXCEPT !.pc = "list_next",
                                    !.valid_sessions = Append(@, th[t].session_id)]]
    /\ UNCHANGED <<sessions, objs, client_sessions, now, sw, serial, parser, last, calls, pre,
                   deleted, creator>>

\* ------------------------------------------------------- cleanup thread
\* An expiry test that also expires a session exactly expiry_seconds old.
IsExpiredAtThreshold(session, t, expiry_seconds) ==
    t - session.last_access_time >= expiry_seconds

\* The expiry test of cleanup_expired_sessions.
IsExpired(session, t, expiry_seconds) ==
    t - session.last_access_time > expiry_seconds

\* A cleanup loop with no except clause: an error ends the thread.
SweepEndedDies(status) ==
    [sw EXCEPT !.pc = IF status = "error" THEN "dead" ELSE "ended", !.status = status]

\* cleanup_expired_sessions is over: it returned ("ok"), or it raised into
\* session_manager's except clause, which logs the error ("error").
SweepEnded(status) == [sw EXCEPT !.pc = "ended", !.status = status]

\* session_manager wakes up and calls cleanup_expired_sessions(expiry_seconds):
\* now = datetime.now(timezone.utc)
SweepBegin ==
    /\ sw.pc = "sleep"
    /\ MaySweep
    /\ MayStart
    /\ calls' = IF serial THEN calls ELSE calls + 1
    /\ \E e \in 0..MaxExpiry :
          sw' = [IdleSweep EXCEPT !.pc = "snapshot", !.expiry = e, !.s_now = now,
                                  !.status = "running"]
    /\ pre' = IF serial THEN Snapshot ELSE pre
    /\ UNCHANGED <<sessions, objs, client_sessions, now, th, serial, parser, last, deleted, creator>>

\* The same step where the run is not cut off after MaxCalls: the loop of
\* session_manager comes round again for as long as the process runs.
SweepWake ==
    /\ sw.pc = "sleep"
    /\ MaySweep
    /\ \E e \in 0..MaxExpiry :
          sw' = [IdleSweep EXCEPT !.pc = "snapshot", !.expiry = e, !.s_now = now,
                                  !.status = "running"]
    /\ pre' = IF serial THEN Snapshot ELSE pre
    /\ UNCHANGED <<sessions, objs, client_sessions, now, th, serial, parser, last, calls,
                   deleted, creator>>

\* cleanup_expired_sessions: list(self.sessions.items())
SweepSnapshot ==
    /\ sw.pc = "snapshot"
    /\ MaySweep
    /\ sw' = IF sessions = <<>>
             THEN SweepEnded("ok")
             ELSE [sw EXCEPT !.pc = "scan", !.items = sessions]
    /\ UNCHANGED <<sessions, objs, client_sessions, now, th, serial, parser, last, calls, pre,
                   deleted, creator>>

\* cleanup_expired_sessions: one turn of the scan loop
SweepScan ==
    /\ sw.pc = "scan"
    /\ MaySweep
    /\ LET id   == Head(sw.items)
           exp  == IF IsExpired(objs[id], sw.s_now, sw.expiry)
                   THEN Append(sw.expired, id)
                   ELSE sw.expired
           rest == Tail(sw.items)
       IN  sw' = IF rest # <<>>
                 THEN [sw EXCEPT !.items = rest, !.expired = exp]
                 ELSE IF exp = <<>>
                      THEN [SweepEnded("ok") EXCEPT !.items = rest]
                      ELSE [sw EXCEPT !.pc = "rm_lookup", !.items = rest, !.expired = exp]
    /\ UNCHANGED <<sessions, objs, client_sessions, now, th, serial, parser, last, calls, pre,
                   deleted, creator>>

\* cleanup_expired_sessions: session = self.sessions[session_id]  (KeyError
\* when gone); client_ip = session['client_ip']
SweepLookup ==
    /\ sw.pc = "rm_lookup"
    /\ MaySweep
    /\ LET id == Head(sw.expired)
       IN  sw' = IF id \notin Live
                 THEN SweepEnded("error")
                 ELSE [sw EXCEPT !.pc = "rm_index", !.client_ip = objs[id].client_ip]
    /\ UNCHANGED <<sessions, objs, client_sessions, now, th, serial, parser, last, calls, pre,
                   deleted, creator>>

\* cleanup_expired_sessions: the index entry goes
SweepIndex ==
    /\ sw.pc = "rm_index"
    /\ MaySweep
    /\ client_sessions' = IndexRemove(client_sessions, sw.client_ip, Head(sw.expired))
    /\ sw' = [sw EXCEPT !.pc = "rm_store"]
    /\ UNCHANGED <<sessions, objs, now, th, serial, parser, last, calls, pre, deleted, creator>>

\* cleanup_expired_sessions: del self.sessions[session_id]  (KeyError when gone)
SweepStore ==
    /\ sw.pc = "rm_store"
    /\ MaySweep
    /\ LET id == Head(sw.expired)
       IN  IF id \in Live
           THEN /\ sessions' = DictDel(sessions, id)
                /\ deleted' = (id :> "sweep") @@ deleted
                /\ sw' = IF Tail(sw.expired) = <<>>
                         THEN [SweepEnded("ok") EXCEPT !.expired = <<>>]
                         ELSE [sw EXCEPT !.pc = "rm_lookup", !.expired = Tail(sw.expired)]
           ELSE /\ sw' = SweepEnded("error")
                /\ UNCHANGED <<sessions, deleted>>
    /\ UNCHANGED <<objs, client_sessions, now, th, serial, parser, last, calls, pre, creator>>

\* session_manager: time.sleep(interval_seconds)
SweepSleep ==
    /\ sw.pc = "ended"
    /\ MaySweep
    /\ sw' = IdleSweep
    /\ pre' = NoSnapshot
    /\ last' = IF last.track
               THEN [last EXCEPT !.updates = Restrict(last.updates, Live)]
               ELSE last
    /\ UNCHANGED <<sessions, objs, client_sessions, now, th, serial, parser, calls,
                   deleted, creator>>

\* ------------------------------------------------------------ specification
\* create_session is called by upload_file alone, a coroutine (async def)
\* that the event loop runs on its one thread: from the return of
\* await file.read() to the end of the handler no other coroutine runs, so
\* the statements of two create_session calls never interleave.  The
\* synchronous handlers and the cleanup thread run beside it.
InCreate(u) ==
    \/ th[u].pc \in {"cr_store", "cr_index_check", "cr_index_init", "cr_index_append"}
    \/ th[u].op = "upload" /\ th[u].pc \notin {"idle", "up_read", "done"}

\* An event loop that resumes a coroutine while another is running.
LoopFreeAlways(t) == TRUE

\* The event loop can resume upload t after its await.
LoopFree(t) == \A u \in Threads \ {t} : ~InCreate(u)

Request(t) ==
    \/ CallCreate(t) \/ CallGet(t) \/ CallUpdate(t) \/ CallDelete(t) \/ CallHandle(t)
    \/ CallList(t)
    \/ Return(t)
    \/ GetCheck(t) \/ GetLookup(t) \/ GetOwner(t) \/ GetNow(t) \/ GetStore(t)
    \/ UpdSet(t)
    \/ DelStore(t) \/ DelIndex(t)
    \/ (LoopFree(t) /\ CrAlloc(t))
    \/ CrStore(t) \/ CrIndexCheck(t) \/ CrIndexInit(t) \/ CrIndexAppend(t)
    \/ HRead(t) \/ HSetDf(t) \/ HSetRows(t)
    \/ ListCheck(t) \/ ListIter(t) \/ ListNext(t) \/ ListTest(t) \/ ListAppend(t)

Sweep ==
    \/ SweepBegin \/ SweepSnapshot \/ SweepScan
    \/ SweepLookup \/ SweepIndex \/ SweepStore \/ SweepSleep

Next == (\E t \in Threads : Request(t)) \/ Sweep \/ Tick

\* Operations one at a time.
Spec == Init /\ [][Next]_vars

\* Operations one at a time, with the history of updates kept.
HistSpec == HistInit /\ [][Next]_vars

\* Request threads and the cleanup thread interleaved.
ConcSpec == ConcInit /\ [][Next]_vars

\* The cleanup loop running for ever beside create and delete traffic, of which
\* MaxLoopCalls requests are let in.  The daemon thread is scheduled again and
\* again and time.sleep returns: weak fairness of the loop's steps.
LoopRequest(t) ==
    /\ th[t].pc = "idle" => calls < MaxLoopCalls
    /\ \/ CallCreate(t) \/ CallDelete(t) \/ Return(t)
       \/ GetCheck(t) \/ GetLookup(t) \/ GetOwner(t) \/ GetNow(t) \/ GetStore(t)
       \/ DelStore(t) \/ DelIndex(t)
       \/ (LoopFree(t) /\ CrAlloc(t))
       \/ CrStore(t) \/ CrIndexCheck(t) \/ CrIndexInit(t) \/ CrIndexAppend(t)

LoopSweep ==
    \/ SweepWake \/ SweepSnapshot \/ SweepScan
    \/ SweepLookup \/ SweepIndex \/ SweepStore \/ SweepSleep

LoopNext == (\E t \in Threads : LoopRequest(t)) \/ LoopSweep \/ Tick

LoopSpec == ConcInit /\ [][LoopNext]_vars /\ WF_vars(LoopSweep)

\* Uploads and missing-value handle requests on the sessions they made.
UploadRequest(t) ==
    \/ CallUpload(t) \/ CallHandle(t) \/ Return(t)
    \/ (LoopFree(t) /\ UpParse(t))
    \/ CrAlloc(t) \/ CrStore(t) \/ CrIndexCheck(t) \/ CrIndexInit(t) \/ CrIndexAppend(t)
    \/ UpAnalyze(t) \/ UpRespond(t)
    \/ GetCheck(t) \/ GetLookup(t) \/ GetOwner(t) \/ GetNow(t) \/ GetStore(t)
    \/ UpdSet(t)
    \/ HRead(t) \/ HSetDf(t) \/ HSetRows(t)

UploadNext == \E t \in Threads : UploadRequest(t)

\* Requests one at a time.
UploadSpec == Init /\ [][UploadNext]_vars

\* Uploads on the event loop, handle requests on the thread pool.
TableSpec == ConcInit /\ [][UploadNext]_vars

\* A run of create_session calls and nothing else, one whole call per step,
\* up to MaxLive sessions.  Which token a call draws makes no difference here:
\* the n-th call draws token n.
CapCreate ==
    /\ Len(sessions) < MaxLive
    /\ LET session_id == Len(sessions) + 1
           client_ip  == "a"
       IN  /\ objs' = (session_id :> NewSessionData(client_ip, now)) @@ objs
           /\ creator' = (session_id :> client_ip) @@ creator
           /\ sessions' = DictStore(sessions, session_id)
           /\ client_sessions' =
                 IF client_ip \notin DOMAIN client_sessions
                 THEN (client_ip :> <<session_id>>) @@ client_sessions
                 ELSE [client_sessions EXCEPT ![client_ip] = Append(@, session_id)]
    /\ UNCHANGED <<now, th, sw, serial, parser, last, calls, pre, deleted>>

CapSpec == Init /\ [][CapCreate]_vars

\* ------------------------------------------------------------------ parsers
\* parse_large_file (handlers/large_file_processor.py) and parse_file_contents
\* (handlers/file_parser.py) with validate_dataframe (utils/data_validation.py).
\*
\* An uploaded file, as far as the parsers' control flow depends on it:
\* its length in bytes, the newlines among its first SAMPLE_BYTES bytes
\* (a quoted field can hold newlines, so these are not tied to the rows), its
\* data rows (row i of the file is written i), its header's columns, what
\* chardet.detect reports for its bytes (an encoding name, None when no
\* prober is confident, and a confidence in hundredths), the encodings under
\* which pd.read_csv reads it, whether a read that replaces undecodable
\* bytes would get through it, and whether pd.read_excel reads it.
Lengths == {0, 600, 1536, 2048}

\* The five encodings _parse_csv_with_encoding tries in turn.
common_encodings == <<"utf-8", "latin-1", "iso-8859-1", "cp1252", "utf-16">>

\* The names Python knows a codec for, among the encodings that occur here
\* (chardet can report EUC-TW, for which Python has none).
Codecs == SeqToSet(common_encodings) \cup {"ascii"}

\* None where an encoding name is expected.
NoEncoding == "None"

Detections == {"ascii", NoEncoding}

Min(a, b) == IF a <= b THEN a ELSE b

\* Characters of a column name.
Str1 == <<"c", "1">>
Str2 == <<"c", "2">>
\* The name pandas gives the first column when its header cell is empty.
UnnamedHeader == <<"U", "n", "n", "a", "m", "e", "d", ":", " ", "0">>
\* A header cell that was typed in lower case.
TypedUnnamed == <<"u", "n", "n", "a", "m", "e", "d">>

\* Files that every codec reads: the files of the chunking claims.
Files ==
    {f \in [len : Lengths, lines : 0..MaxLines, rows : 0..MaxRows,
            columns : {{Str1, Str2}}, chardet : Detections,
            confidence : {0, 100}, parses : {Codecs}, lossy : {TRUE},
            excel : {FALSE}] :
        /\ f.lines <= Min(f.len, SAMPLE_BYTES)
        /\ f.rows <= f.len
        /\ f.len = 0 => f.chardet = NoEncoding
        /\ f.confidence = (IF f.chardet = NoEncoding THEN 0 ELSE 100)}

ChunkSizes == 1..MaxChunk

\* sample_rows=None (a negative count is refused by the reader)
NoSample == -1

\* A DataFrame: its rows in index order and its columns.
DataFrame(rows, columns) == [kind |-> "df", rows |-> rows, columns |-> columns]

\* pd.DataFrame()
EmptyDataFrame == DataFrame(<<>>, {})

\* The encoding pd.read_csv reads under: utf-8 when it is given None.
ReadUnder(encoding) == IF encoding = NoEncoding THEN "utf-8" ELSE encoding

\* pd.read_csv(io.BytesIO(contents), encoding=encoding) returns (or raises).
Readable(f, encoding) == ReadUnder(encoding) \in f.parses

\* pd.read_csv(io.BytesIO(contents), encoding=encoding): the whole file
read_csv(f) == DataFrame([i \in 1..f.rows |-> i], f.columns)

\* pd.read_csv(..., nrows=n): the first n rows
read_csv_nrows(f, n) == DataFrame([i \in 1..Min(n, f.rows) |-> i], f.columns)

\* pd.read_excel(io.BytesIO(contents)): the whole sheet
read_excel(f) == DataFrame([i \in 1..f.rows |-> i], f.columns)

\* The next chunk of pd.read_csv(..., chunksize=chunk_size) after offset rows.
NextChunk(f, offset, chunk_size) ==
    DataFrame([i \in 1..Min(chunk_size, f.rows - offset) |-> offset + i], f.columns)

\* A concatenation that puts the latest chunk first.
RECURSIVE concatReversed(_)
concatReversed(chunks) ==
    IF Len(chunks) = 1
    THEN chunks[1]
    ELSE LET rest == concatReversed(Tail(chunks))
         IN  DataFrame(rest.rows \o chunks[1].rows, chunks[1].columns \cup rest.columns)

\* pd.concat(chunks, ignore_index=True) of a list that is not empty
RECURSIVE concat(_)
concat(chunks) ==
    IF Len(chunks) = 1
    THEN chunks[1]
    ELSE LET rest == concat(Tail(chunks))
         IN  DataFrame(chunks[1].rows \o rest.rows, chunks[1].columns \cup rest.columns)

\* _count_csv_rows: newlines of the sample scaled by length / sample length
\* (the float product is exact for these sizes), truncated by int()
\* The decode of the sample raises for an encoding that names no codec
\* (LookupError) or is None (TypeError): except Exception: return 0
_count_csv_rows(f, encoding) ==
    LET sample_size == Min(SAMPLE_BYTES, f.len)
    IN  IF encoding \notin Codecs
        THEN 0
        ELSE IF f.lines > 0 THEN (f.len * f.lines) \div sample_size ELSE 0

\* str.startswith
startswith(s, prefix) ==
    /\ Len(s) >= Len(prefix)
    /\ SubSeq(s, 1, Len(prefix)) = prefix

\* validate_dataframe: str(c).startswith("unnamed")
IsPlaceholder(c) == startswith(c, <<"u", "n", "n", "a", "m", "e", "d">>)

\* validate_dataframe's limits
MIN_ROWS == 1
MAX_ROWS == 1000000
MIN_COLS == 1
MAX_COLS == 500

\* validate_dataframe(df) returns (TRUE) or raises (FALSE).  df.empty holds
\* for a frame without rows or without columns.
validate_dataframe(df) ==
    LET rows  == Len(df.rows)
        cols  == Cardinality(df.columns)
        empty == rows = 0 \/ cols = 0
    IN  /\ ~empty
        /\ ~(rows < MIN_ROWS \/ cols < MIN_COLS)
        /\ ~(rows > MAX_ROWS)
        /\ ~(cols > MAX_COLS)
        /\ ~(\E c \in df.columns : IsPlaceholder(c))

\* A call of one of the two parsers, about to run its first statement.
\* entry is the function called, kind the file kind its name ends in, and
\* encoding the encoding argument (None when it is left out).
Call(entry, kind, f, chunk_size, sample_rows, encoding) ==
    [pc |-> "enter", entry |-> entry, kind |-> kind, file |-> f,
     chunk_size |-> chunk_size, sample_rows |-> sample_rows,
     encoding |-> encoding, given |-> encoding,
     total_rows |-> 0, chunks |-> <<>>, offset |-> 0, i |-> 1, df |-> None,
     is_chunked |-> FALSE, is_sampled |-> FALSE, sample_size |-> NoSample,
     reported |-> NoEncoding, tried |-> <<>>, error |-> "none"]

\* parse_large_file(filename.csv, contents, chunk_size, encoding=...) is
\* called, sample_rows unset; encoding is a codec name or left at None.
ParserCalls ==
    {Call("parse_large_file", "csv", f, k, NoSample, e) :
        f \in Files, k \in ChunkSizes, e \in {NoEncoding, "utf-8"}}

ParseInit ==
    /\ Started
    /\ serial = TRUE
    /\ last = [track |-> FALSE, updates |-> NoUpdates]
    /\ parser \in ParserCalls

\* The call ends by raising exc.
Raise(p, exc) == [p EXCEPT !.pc = "failed", !.error = exc, !.df = None]

\* A read of the file is attempted under encoding, in the given mode.
Attempt(p, encoding, mode) ==
    [p EXCEPT !.tried = Append(p.tried, <<ReadUnder(encoding), mode>>)]

\* if sample_rows:
Truthy(sample_rows) == sample_rows # NoSample /\ sample_rows # 0

\* parse_large_file: metadata['is_sampled'] = sample_rows is not None
IsSampled(sample_rows) == sample_rows # NoSample

\* parse_large_file up to the call of _parse_large_csv; an Excel file is read
\* whole by pd.read_excel, whatever sample_rows is
EnterLarge ==
    /\ parser.pc = "enter"
    /\ parser.entry = "parse_large_file"
    /\ LET p == [parser EXCEPT !.is_sampled = IsSampled(parser.sample_rows)]
       IN  parser' =
             IF parser.kind = "csv"
             THEN [p EXCEPT !.pc = "encoding"]
             ELSE IF parser.file.excel
                  THEN [p EXCEPT !.pc = "done", !.df = read_excel(parser.file),
                                 !.total_rows = parser.file.rows]
                  ELSE Raise(p, "FileReadError")
    /\ UNCHANGED storeVars

\* parse_file_contents up to the parse: _parse_csv_with_encoding for a name
\* that ends in .csv, pd.read_excel for any other
EnterContents ==
    /\ parser.pc = "enter"
    /\ parser.entry = "parse_file_contents"
    /\ parser' =
          IF parser.kind = "csv"
          THEN [parser EXCEPT !.pc = "pcwe"]
          ELSE IF parser.file.excel
               THEN [parser EXCEPT !.pc = "validate", !.df = read_excel(parser.file)]
               ELSE Raise(parser, "FileReadError")
    /\ UNCHANGED storeVars

\* _parse_large_csv: if not encoding:
\*     encoding = detect_file_encoding(contents).get('encoding', 'utf-8')
\* (the key is always there, so a None that chardet reports is kept)
ResolveEncoding ==
    /\ parser.pc = "encoding"
    /\ parser' = [parser EXCEPT !.pc = "count",
                                !.encoding = IF parser.encoding = NoEncoding
                                             THEN parser.file.chardet
                                             ELSE parser.encoding]
    /\ UNCHANGED storeVars

\* _parse_large_csv: if sample_rows: the first sample_rows rows are read
\* under the encoding and returned with is_sampled and sample_size
Sample ==
    /\ parser.pc = "count"
    /\ Truthy(parser.sample_rows)
    /\ LET p == Attempt(parser, parser.encoding, "nrows")
       IN  parser' =
             IF Readable(parser.file, parser.encoding)
             THEN LET df == read_csv_nrows(parser.file, parser.sample_rows)
                  IN  [p EXCEPT !.pc = "done", !.df = df,
                                !.reported = parser.encoding,
                                !.total_rows = Len(df.rows),
                                !.is_sampled = TRUE,
                                !.sample_size = parser.sample_rows]
             ELSE Raise(p, "FileReadError")
    /\ UNCHANGED storeVars

\* _parse_large_csv: total_rows = _count_csv_rows(contents, encoding)
CountRows ==
    /\ parser.pc = "count"
    /\ ~Truthy(parser.sample_rows)
    /\ parser' = [parser EXCEPT
                     !.pc = "decide",
                     !.total_rows = _count_csv_rows(parser.file, parser.encoding)]
    /\ UNCHANGED storeVars

\* _parse_large_csv: if total_rows <= chunk_size
SmallEnough(total_rows, chunk_size) == total_rows <= chunk_size

\* _parse_large_csv: a small file goes to _parse_csv_with_encoding with the
\* encoding resolved above, a large one to _read_csv_in_chunks
Decide ==
    /\ parser.pc = "decide"
    /\ parser' = IF SmallEnough(parser.total_rows, parser.chunk_size)
                 THEN [parser EXCEPT !.pc = "pcwe"]
                 ELSE [parser EXCEPT !.pc = "chunks"]
    /\ UNCHANGED storeVars

\* _parse_csv_with_encoding returns (df, encoding) to its caller:
\* _parse_large_csv returns the table with is_chunked False,
\* parse_file_contents goes on to validate it
PcweReturn(p, df, encoding) ==
    [p EXCEPT !.pc = IF p.entry = "parse_large_file" THEN "done" ELSE "validate",
              !.df = df, !.reported = encoding, !.is_chunked = FALSE]

\* A reading of the specified encoding that goes on to the candidates when
\* the read under it fails.
SpecifiedEncodingFallsBack ==
    /\ parser.pc = "pcwe"
    /\ parser.encoding # NoEncoding
    /\ LET p == Attempt(parser, parser.encoding, "strict")
       IN  parser' = IF Readable(parser.file, parser.encoding)
                     THEN PcweReturn(p, read_csv(parser.file), parser.encoding)
                     ELSE [p EXCEPT !.pc = "candidates", !.i = 1]
    /\ UNCHANGED storeVars

\* _parse_csv_with_encoding: if encoding: one read under it, an error if
\* that read fails
SpecifiedEncoding ==
    /\ parser.pc = "pcwe"
    /\ parser.encoding # NoEncoding
    /\ LET p == Attempt(parser, parser.encoding, "strict")
       IN  parser' = IF Readable(parser.file, parser.encoding)
                     THEN PcweReturn(p, read_csv(parser.file), parser.encoding)
                     ELSE Raise(p, "FileReadError")
    /\ UNCHANGED storeVars

\* confidence > 0.7, in hundredths
HIGH_CONFIDENCE == 70

Confident(confidence) == confidence > HIGH_CONFIDENCE

\* _parse_csv_with_encoding without an encoding: the encoding chardet
\* reports is tried first when its confidence is high
Detect ==
    /\ parser.pc = "pcwe"
    /\ parser.encoding = NoEncoding
    /\ LET detected_encoding == parser.file.chardet
           p == Attempt(parser, detected_encoding, "strict")
       IN  parser' =
             IF Confident(parser.file.confidence)
             THEN IF Readable(parser.file, detected_encoding)
                  THEN PcweReturn(p, read_csv(parser.file), detected_encoding)
                  ELSE [p EXCEPT !.pc = "candidates", !.i = 1]
             ELSE [parser EXCEPT !.pc = "candidates", !.i = 1]
    /\ UNCHANGED storeVars

\* _parse_csv_with_encoding: one turn of for enc in common_encodings
TryCandidate ==
    /\ parser.pc = "candidates"
    /\ LET enc == common_encodings[parser.i]
           p   == Attempt(parser, enc, "strict")
       IN  parser' =
             IF Readable(parser.file, enc)
             THEN PcweReturn(p, read_csv(parser.file), enc)
             ELSE [p EXCEPT !.i = parser.i + 1,
                            !.pc = IF parser.i = Len(common_encodings)
                                   THEN "lossy" ELSE "candidates"]
    /\ UNCHANGED storeVars

\* The keyword parameters of pd.read_csv that the parsers could pass.  It has
\* none named errors: the one that replaces undecodable bytes is
\* encoding_errors.
read_csv_parameters == {"encoding", "nrows", "chunksize", "encoding_errors"}

\* _parse_csv_with_encoding: the last attempt after every candidate failed,
\* pd.read_csv(io.BytesIO(contents), encoding='utf-8', errors='replace').
\* A keyword that read_csv does not have raises TypeError before anything
\* is read.
Lossy ==
    /\ parser.pc = "lossy"
    /\ parser' =
          IF "errors" \in read_csv_parameters
          THEN LET p == Attempt(parser, "utf-8", "replace")
               IN  IF parser.file.lossy
                   THEN PcweReturn(p, read_csv(parser.file), "utf-8")
                   ELSE Raise(p, "FileReadError")
          ELSE Raise(parser, "FileReadError")
    /\ UNCHANGED storeVars

\* parse_file_contents: validate_dataframe(df)
Validate ==
    /\ parser.pc = "validate"
    /\ parser' = IF validate_dataframe(parser.df)
                 THEN [parser EXCEPT !.pc = "done"]
                 ELSE Raise(parser, "DataFrameValidationError")
    /\ UNCHANGED storeVars

\* _read_csv_in_chunks: one turn of the for loop (the reader hands out its
\* first chunk even when the file has no data row), or the reader is
\* exhausted; a read that fails ends the call
ReadChunk ==
    /\ parser.pc = "chunks"
    /\ parser' =
          IF ~Readable(parser.file, parser.encoding)
          THEN Raise(Attempt(parser, parser.encoding, "chunks"), "FileReadError")
          ELSE IF parser.offset < parser.file.rows \/ parser.chunks = <<>>
          THEN LET chunk  == NextChunk(parser.file, parser.offset, parser.chunk_size)
                   chunks == Append(parser.chunks, chunk)
                   p      == IF parser.chunks = <<>>
                             THEN Attempt(parser, parser.encoding, "chunks")
                             ELSE parser
               IN  [p EXCEPT !.chunks = chunks,
                             !.offset = parser.offset + Len(chunk.rows),
                             !.pc = IF Len(chunks) > CHUNK_LIMIT
                                    THEN "concat"
                                    ELSE "chunks"]
          ELSE [parser EXCEPT !.pc = "concat"]
    /\ UNCHANGED storeVars

\* _read_csv_in_chunks: the chunks are combined; _parse_large_csv returns the
\* table with is_chunked True
Concat ==
    /\ parser.pc = "concat"
    /\ parser' = [parser EXCEPT !.pc = "done",
                                !.df = IF parser.chunks # <<>>
                                       THEN concat(parser.chunks)
                                       ELSE EmptyDataFrame,
                                !.reported = parser.encoding,
                                !.chunks = <<>>, !.offset = 0,
                                !.is_chunked = TRUE]
    /\ UNCHANGED storeVars

\* parse_large_file on files that every codec reads, sample_rows unset.
ParseNext ==
    \/ EnterLarge \/ ResolveEncoding \/ CountRows \/ Decide
    \/ SpecifiedEncoding \/ Detect \/ TryCandidate
    \/ ReadChunk \/ Concat

ParseSpec == ParseInit /\ [][ParseNext]_vars

\* Small files that every codec and the Excel reader read.
SmallFiles ==
    {f \in [len : {600}, lines : 0..MaxLines, rows : 0..MaxSmallRows,
            columns : {{Str1, Str2}}, chardet : Detections,
            confidence : {0, 100}, parses : {Codecs}, lossy : {TRUE},
            excel : {TRUE}] :
        f.confidence = (IF f.chardet = NoEncoding THEN 0 ELSE 100)}

\* The values of sample_rows a caller supplies.
SampleCounts == 0..MaxSample

\* parse_large_file(filename, contents, chunk_size, sample_rows=n, ...) is
\* called on a .csv or an .xlsx name.
SampleCalls ==
    {Call("parse_large_file", kind, f, k, n, e) :
        kind \in {"csv", "xlsx"}, f \in SmallFiles, k \in ChunkSizes,
        n \in SampleCounts, e \in {NoEncoding, "utf-8"}}

SampleInit ==
    /\ Started
    /\ serial = TRUE
    /\ last = [track |-> FALSE, updates |-> NoUpdates]
    /\ parser \in SampleCalls

SampleNext == ParseNext \/ Sample

\* What chardet.detect can report: a name Python has a codec for, one it has
\* none for, or None; with its confidence in hundredths.
Reports == {"ascii", "utf-8", "EUC-TW", NoEncoding}
Confidences == {0, HIGH_CONFIDENCE, 99}

\* One-row files that differ in what chardet reports for them and in the
\* encodings under which they can be read.
EncFiles ==
    {f \in [len : {600}, lines : 0..MaxLines, rows : {1},
            columns : {{Str1, Str2}}, chardet : Reports,
            confidence : Confidences, parses : SUBSET Codecs, lossy : BOOLEAN,
            excel : {FALSE}] :
        f.chardet = NoEncoding <=> f.confidence = 0}

\* The encoding argument: left out, a codec name, a name of no codec.
EncodingArgs == {NoEncoding, "cp1252", "EUC-TW"}

\* Either parser is called on a .csv name, sample_rows unset.
EncCalls ==
    {Call(entry, "csv", f, k, NoSample, e) :
        entry \in {"parse_large_file", "parse_file_contents"},
        f \in EncFiles, k \in ChunkSizes, e \in EncodingArgs}

EncInit ==
    /\ Started
    /\ serial = TRUE
    /\ last = [track |-> FALSE, updates |-> NoUpdates]
    /\ parser \in EncCalls

EncNext == ParseNext \/ EnterContents \/ Lossy \/ Validate

EncSpec == EncInit /\ [][EncNext]_vars

\* The headers of the files of the validation runs: none (an empty sheet),
\* two named columns, a column whose header cell is empty, a column whose
\* header was typed "unnamed".
Headers == {{}, {Str1, Str2}, {Str1, UnnamedHeader}, {Str1, TypedUnnamed}}

\* Small files that every reader reads and that differ in their shape; the
\* detector is sure of its report or just not sure enough.
ShapedFiles ==
    {f \in [len : {600}, lines : 0..MaxLines, rows : 0..MaxSmallRows,
            columns : Headers, chardet : {"ascii"},
            confidence : {HIGH_CONFIDENCE, 100}, parses : {Codecs}, lossy : {TRUE},
            excel : {TRUE}] :
        f.columns = {} => f.rows = 0}

\* Either parser is called on a .csv or an .xlsx name; pd.read_csv raises
\* EmptyDataError on a file without a header, so a .csv has one.
ShapedCalls ==
    {c \in {Call(entry, kind, f, k, n, NoEncoding) :
               entry \in {"parse_large_file", "parse_file_contents"},
               kind \in {"csv", "xlsx"}, f \in ShapedFiles,
               k \in ChunkSizes, n \in {NoSample} \cup SampleCounts} :
        /\ c.kind = "csv" => c.file.columns # {}
        /\ c.entry = "parse_file_contents" => c.sample_rows = NoSample}

ValidInit ==
    /\ Started
    /\ serial = TRUE
    /\ last = [track |-> FALSE, updates |-> NoUpdates]
    /\ parser \in ShapedCalls

ValidNext == ParseNext \/ Sample \/ EnterContents \/ Validate

ValidSpec == ValidInit /\ [][ValidNext]_vars

SampleSpec == SampleInit /\ [][SampleNext]_vars

\* ------------------------------------------------------------------ claims
\* The operation thread t ran was called with a session that was live and was
\* created for the requester / for someone else / was not live, at the call.
WasLive(t)       == th[t].session_id \in SeqToSet(pre.sessions)
CalledByOwner(t) == WasLive(t) /\ creator[th[t].session_id] = th[t].client_ip
CalledByOther(t) == WasLive(t) /\ creator[th[t].session_id] # th[t].client_ip
Finished(t, op)  == th[t].pc = "done" /\ th[t].op = op

StoreUnchanged ==
    /\ sessions = pre.sessions
    /\ objs = pre.objs
    /\ client_sessions = pre.client_sessions

\* C1: isolation.  A get by a requester other than the session's owner returns
\* None, a get by the owner returns the record, and a record that a get
\* returns was created for the requester.
C1_Isolation ==
    \A t \in Threads :
        Finished(t, "get") =>
            /\ CalledByOther(t) => th[t].ret = RetNone
            /\ CalledByOwner(t) => th[t].ret = RetSession(th[t].session_id)
            /\ th[t].ret.kind = "session" => creator[th[t].ret.ref] = th[t].client_ip

C1_Witness ==
    \E t \in Threads : Finished(t, "get") /\ CalledByOther(t)

\* C2: indistinguishability.  A get by a requester who does not own the id has
\* one outcome whether the id is absent or live and owned by someone else: it
\* returns None and leaves the store (records, timestamps, index) as it was.
C2_Indistinguishable ==
    \A t \in Threads :
        (Finished(t, "get") /\ ~CalledByOwner(t)) =>
            th[t].ret = RetNone /\ StoreUnchanged

C2_Witness ==
    \E t \in Threads :
        /\ Finished(t, "get")
        /\ CalledByOther(t)
        /\ pre.objs[th[t].session_id].last_access_time < now

\* C3: expiry.  When a sweep that ran alone returns, every session that was
\* live at its start with now - last_access_time > expiry_seconds is gone from
\* the store and from every index list, and every other session is still
\* live, still indexed, with its record unchanged.
InSomeIndex(id) ==
    \E c \in DOMAIN client_sessions : id \in SeqToSet(client_sessions[c])

C3_Expiry ==
    sw.pc = "ended" =>
        /\ sw.status = "ok"
        /\ \A id \in SeqToSet(pre.sessions) :
              IF sw.s_now - pre.objs[id].last_access_time > sw.expiry
              THEN id \notin Live /\ ~InSomeIndex(id)
              ELSE id \in Live /\ InSomeIndex(id) /\ objs[id] = pre.objs[id]

C3_Witness ==
    /\ sw.pc = "ended"
    /\ \E id \in SeqToSet(pre.sessions) :
          sw.s_now - pre.objs[id].last_access_time > sw.expiry
    /\ \E id \in SeqToSet(pre.sessions) :
          sw.s_now - pre.objs[id].last_access_time = sw.expiry

\* C4: deleted is terminal.  An id removed by delete or by the sweep is never
\* live again, whatever is written to the removed record afterwards, and every
\* operation called on it afterwards gets the not-found outcome.
NotFoundOutcomes ==
    {RetNone, RetBool(FALSE), RetRaise("SessionNotFoundError")}

C4_DeletedIsTerminal ==
    /\ DOMAIN deleted \cap Live = {}
    /\ \A t \in Threads :
          (th[t].pc = "done" /\ th[t].gone) => th[t].ret \in NotFoundOutcomes

\* A handler still holds a record that has been removed and has written to it.
C4_Witness ==
    \E t \in Threads :
        /\ th[t].session \in DOMAIN deleted
        /\ \/ th[t].pc = "upd_set" /\ Len(th[t].left) < Len(th[t].updates)
           \/ th[t].pc = "h_set_rows"

\* C5: the sweep is safe under concurrency.  The sweep never ends in an
\* internal error, and no request ends in one for a record the sweep removed.
C5_SweepSafe ==
    /\ sw.status # "error"
    /\ \A t \in Threads :
          (th[t].pc = "done" /\ th[t].ret = RetRaise("KeyError")) =>
              ~(th[t].session_id \in DOMAIN deleted /\ deleted[th[t].session_id] = "sweep")


\* C6: the sweep's check-then-remove is exclusive with a get's refresh.  When
\* the sweep removes a session, that session is still expired.
C6_RemovedStillExpired ==
    [][ (sw.pc = "rm_store" /\ Head(sw.expired) \in Live /\ sw'.pc # "rm_store")
          => sw.s_now - objs[Head(sw.expired)].last_access_time > sw.expiry ]_vars

\* C7: last_access_time of a live session never decreases.
C7_AccessTimeMonotonic ==
    [][ \A id \in Live \cap SeqToSet(sessions') :
          objs'[id].last_access_time >= objs[id].last_access_time ]_vars

\* C8: the owner of a record never changes.  Every live record's client_ip
\* is the client passed to the create that produced it.
C8_OwnerImmutable ==
    \A id \in Live : objs[id].client_ip = creator[id]

\* A live session after a table transform on it.
C8_Witness ==
    \E t \in Threads :
        /\ Finished(t, "handle")
        /\ th[t].ret = RetOk
        /\ th[t].session_id \in Live
        /\ creator[th[t].session_id] = "b"

\* The record r with the keyword arguments u set, in order.
RECURSIVE Merged(_, _)
Merged(r, u) ==
    IF u = <<>> THEN r
    ELSE Merged([r EXCEPT ![Head(u)[1]] = Head(u)[2]], Tail(u))

\* C9: update.  Called by the owner of a live session it returns True and the
\* record is the old record with exactly the given fields set (and the
\* timestamp refreshed); otherwise it returns False and nothing changes.
C9_Update ==
    \A t \in Threads :
        Finished(t, "update") =>
            LET sid == th[t].session_id
            IN  IF CalledByOwner(t)
                THEN /\ th[t].ret = RetBool(TRUE)
                     /\ sessions = pre.sessions
                     /\ client_sessions = pre.client_sessions
                     /\ \A id \in DOMAIN objs \ {sid} : objs[id] = pre.objs[id]
                     /\ [objs[sid] EXCEPT !.last_access_time = 0] =
                        [Merged(pre.objs[sid], th[t].updates)
                            EXCEPT !.last_access_time = 0]
                ELSE th[t].ret = RetBool(FALSE) /\ StoreUnchanged

C9_Witness ==
    \E t \in Threads :
        /\ Finished(t, "update")
        /\ CalledByOwner(t)
        /\ Len(th[t].updates) > 1
        /\ objs[th[t].session_id] # pre.objs[th[t].session_id]

\* C10: delete.  Called by the owner of a live session it removes the record
\* from the store and the id from the owner's index and returns True;
\* otherwise it returns False and the store and the index are unchanged.
C10_Delete ==
    \A t \in Threads :
        Finished(t, "delete") =>
            LET sid == th[t].session_id
                c   == th[t].client_ip
            IN  IF CalledByOwner(t)
                THEN /\ th[t].ret = RetBool(TRUE)
                     /\ sid \notin Live
                     /\ Live = SeqToSet(pre.sessions) \ {sid}
                     /\ ~InSomeIndex(sid)
                     /\ \A k \in DOMAIN pre.client_sessions :
                           /\ k \in DOMAIN client_sessions
                           /\ SeqToSet(client_sessions[k]) =
                                  SeqToSet(pre.client_sessions[k]) \ {sid}
                     /\ \A id \in Live : objs[id] = pre.objs[id]
                ELSE th[t].ret = RetBool(FALSE) /\ StoreUnchanged

C10_Witness ==
    \E t \in Threads :
        /\ Finished(t, "delete")
        /\ CalledByOwner(t)
        /\ Len(pre.sessions) > 1

\* C11: list_for.  get_client_sessions(owner) returns the live records created
\* for the owner, each once, and nothing else: no record of another client and
\* no record that delete or the sweep has removed; the store is left as it was.
C11_ListFor ==
    \A t \in Threads :
        Finished(t, "list") =>
            /\ th[t].ret.kind = "list"
            /\ SeqToSet(th[t].ret.refs) =
                  {id \in Live : creator[id] = th[t].client_ip}
            /\ Len(th[t].ret.refs) = Cardinality(SeqToSet(th[t].ret.refs))
            /\ StoreUnchanged

\* The owner lists a live session after another one of theirs was removed.
C11_Witness ==
    \E t \in Threads :
        /\ Finished(t, "list")
        /\ Len(th[t].ret.refs) = 1
        /\ \E id \in DOMAIN deleted : creator[id] = th[t].client_ip

\* C12: read-your-writes.  When update_session returned True and the owner's
\* next operation on that session, still live, is a get, the get returns the
\* record and the record carries every field the update set.
C12_ReadYourWrites ==
    \A t \in Threads :
        (/\ Finished(t, "get")
         /\ CalledByOwner(t)
         /\ th[t].session_id \in DOMAIN last.updates) =>
            /\ th[t].ret = RetSession(th[t].session_id)
            /\ \A i \in 1..Len(last.updates[th[t].session_id]) :
                  LET kv == last.updates[th[t].session_id][i]
                  IN  objs[th[t].ret.ref][kv[1]] = kv[2]

\* The owner reads back an upload's table and counts after another client's
\* request and a sweep have run in between.
C12_Witness ==
    \E t \in Threads :
        /\ Finished(t, "get")
        /\ CalledByOwner(t)
        /\ th[t].session_id \in DOMAIN last.updates
        /\ Len(last.updates[th[t].session_id]) > 1
        /\ DOMAIN deleted # {}

\* C13: get is idempotent up to the access timestamp.  A successful get by
\* the owner returns the stored record and changes nothing in the store but
\* that record's last_access_time, which never moves back: the table and
\* every other field a later get returns are the ones this get returned.
C13_GetIdempotent ==
    \A t \in Threads :
        (Finished(t, "get") /\ CalledByOwner(t)) =>
            LET sid == th[t].session_id
            IN  /\ th[t].ret = RetSession(sid)
                /\ sessions = pre.sessions
                /\ client_sessions = pre.client_sessions
                /\ \A id \in DOMAIN objs \ {sid} : objs[id] = pre.objs[id]
                /\ \A f \in DOMAIN objs[sid] \ {"last_access_time"} :
                      objs[sid][f] = pre.objs[sid][f]
                /\ objs[sid].last_access_time >= pre.objs[sid].last_access_time

\* A get that refreshed the timestamp of a session holding a table.
C13_Witness ==
    \E t \in Threads :
        /\ Finished(t, "get")
        /\ CalledByOwner(t)
        /\ objs[th[t].session_id].df # None
        /\ objs[th[t].session_id].row_count > 0
        /\ objs[th[t].session_id].last_access_time >
              pre.objs[th[t].session_id].last_access_time

C15_SweepsForever ==
    /\ []<>(sw.pc = "snapshot")
    /\ (sw.pc = "ended" /\ sw.status = "error") ~> (sw.pc = "snapshot")

\* A sweep has raised into the except clause of the loop.
C15_Witness == sw.pc = "ended" /\ sw.status = "error"

\* C16: a live session leaves the store only through delete_session called
\* with its owner's identity or through a sweep that found it expired: every
\* step that takes an id out of self.sessions is one of these two.
C16_RemovalAuthorized ==
    [][ \A id \in Live \ SeqToSet(sessions') :
          \/ \E t \in Threads :
                /\ th[t].op = "delete"
                /\ th[t].pc = "del_store"
                /\ th[t].session_id = id
                /\ th[t].client_ip = creator[id]
          \/ /\ sw.pc = "rm_store"
             /\ Head(sw.expired) = id
             /\ sw.s_now - objs[id].last_access_time > sw.expiry ]_vars

\* One session has been removed by its owner's delete and one by the sweep.
C16_Witness ==
    /\ \E id \in DOMAIN deleted : deleted[id] = "delete"
    /\ \E id \in DOMAIN deleted : deleted[id] = "sweep"

\* C17: the number of live sessions in one instance never exceeds 200.
C17_SessionCap == Len(sessions) <= SESSION_LIMIT

\* C18: chunk cap.  A chunked parse never returns more than
\* 100 x chunk_size rows.
C18_ChunkCap ==
    (parser.pc = "done" /\ parser.is_chunked) =>
        Len(parser.df.rows) <= CHUNK_LIMIT * parser.chunk_size

\* C19: chunking decision.  The parse is reported is_chunked = False, and made
\* in one pass, exactly when the estimate (newlines of the first 1024 bytes
\* times length over sample length, truncated; 0 without a newline) is at
\* most chunk_size; otherwise it is reported is_chunked = True and made in
\* chunks.
C19_ChunkingDecision ==
    LET f        == parser.file
        estimate == IF f.lines = 0
                    THEN 0
                    ELSE IF f.len <= SAMPLE_BYTES
                         THEN f.lines
                         ELSE (f.lines * f.len) \div SAMPLE_BYTES
    IN  /\ parser.pc = "done" =>
              (parser.is_chunked <=> ~(estimate <= parser.chunk_size))
        /\ parser.pc \in {"chunks", "concat"} => estimate > parser.chunk_size

\* C20: chunked parsing is equivalent to single-pass parsing below the cap.
\* For a file of at most 100 x chunk_size rows the concatenated chunks are the
\* rows of a single-pass parse, in the same order, under the same columns.
C20_ChunkedEqualsSinglePass ==
    (/\ parser.pc = "done"
     /\ parser.is_chunked
     /\ parser.file.rows <= CHUNK_LIMIT * parser.chunk_size) =>
        parser.df = read_csv(parser.file)

\* A chunked parse of a file just under the cap: 99 chunks of 2 rows and a
\* last chunk of one row.
C20_Witness ==
    /\ parser.pc = "done"
    /\ parser.is_chunked
    /\ parser.chunk_size = 2
    /\ Len(parser.df.rows) = CHUNK_LIMIT * parser.chunk_size - 1

\* C21: for every call of parse_large_file with sample_rows set to N (0
\* included, either file kind) the returned table holds the first N rows of
\* the input and no more, is_sampled is True and sample_size is N, and the
\* call never takes the chunking decision; is_sampled is True only for a
\* table that was cut to sample_rows.
C21_Sampling ==
    /\ parser.sample_rows # NoSample =>
          /\ parser.pc \notin {"decide", "chunks", "concat"}
          /\ parser.pc = "done" =>
                /\ parser.df = read_csv_nrows(parser.file, parser.sample_rows)
                /\ parser.is_sampled
                /\ parser.sample_size = parser.sample_rows
    /\ (parser.pc = "done" /\ parser.is_sampled) =>
          /\ parser.sample_rows # NoSample
          /\ parser.df = read_csv_nrows(parser.file, parser.sample_rows)

\* The reads of the file attempted so far.
Tried == {parser.tried[k] : k \in 1..Len(parser.tried)}

\* C22: when an explicit encoding is supplied for a delimited-text input,
\* every read is attempted under exactly that encoding (no detection, no
\* candidate list, no lossy read); a call that succeeds reports that
\* encoding, and a call fails, with a read error, exactly when the file
\* cannot be read under it.
C22_ExplicitVerbatim ==
    parser.given # NoEncoding =>
        /\ \A a \in Tried : a[1] = parser.given /\ a[2] # "replace"
        /\ parser.pc \notin {"candidates", "lossy"}
        /\ parser.pc = "done" =>
              /\ parser.reported = parser.given
              /\ Readable(parser.file, parser.given)
        /\ parser.pc = "failed" =>
              /\ parser.error = "FileReadError"
              /\ ~Readable(parser.file, parser.given)

\* A call with an explicit encoding has failed on a file that the candidate
\* list and the lossy read would both have read.
C22_Witness ==
    /\ parser.given = "cp1252"
    /\ parser.pc = "failed"
    /\ parser.tried = << <<"cp1252", "strict">> >>
    /\ "utf-8" \in parser.file.parses
    /\ parser.file.lossy

\* Some candidate of the list reads the file.
SomeCandidateReads(f) == \E k \in 1..Len(common_encodings) : common_encodings[k] \in f.parses

\* The first encoding, in the order [detected encoding if its confidence is
\* high], utf-8, latin-1, iso-8859-1, cp1252, utf-16, that reads the file.
FirstThatReads(f) ==
    IF Confident(f.confidence) /\ Readable(f, f.chardet)
    THEN ReadUnder(f.chardet)
    ELSE common_encodings[CHOOSE k \in 1..Len(common_encodings) :
                             /\ common_encodings[k] \in f.parses
                             /\ \A j \in 1..(k - 1) : common_encodings[j] \notin f.parses]

\* C23: a delimited-text input given without an explicit encoding that can
\* be read under at least one of the five candidates is ingested, through
\* parse_file_contents and through parse_large_file alike, and the encoding
\* reported is the first that reads it in the order [detected encoding if
\* confidence > 0.7], utf-8, latin-1, iso-8859-1, cp1252, utf-16.
C23_EncodingFallback ==
    (parser.given = NoEncoding /\ SomeCandidateReads(parser.file)) =>
        /\ parser.pc # "failed"
        /\ parser.pc \in {"done", "validate"} =>
              ReadUnder(parser.reported) = FirstThatReads(parser.file)

\* C24: when the read fails under the detected encoding and under all five
\* candidates, exactly one more read is attempted, in utf-8 with the
\* undecodable bytes replaced; the call succeeds, reporting utf-8, when that
\* read gets through the file, and fails only when it does not.
C24_LossyLastResort ==
    (parser.i > Len(common_encodings) /\ parser.pc # "lossy") =>
        /\ Len(parser.tried) >= 1
        /\ parser.tried[Len(parser.tried)] = <<"utf-8", "replace">>
        /\ \A k \in 1..(Len(parser.tried) - 1) : parser.tried[k][2] = "strict"
        /\ parser.file.lossy => parser.pc \in {"done", "validate"} /\ parser.reported = "utf-8"
        /\ ~parser.file.lossy => parser.pc = "failed"

\* C25: a table that parse_file_contents or parse_large_file returns has
\* between 1 and 1,000,000 rows and between 1 and 500 columns.
C25_StructuralBounds ==
    parser.pc = "done" =>
        /\ Len(parser.df.rows) >= MIN_ROWS
        /\ Len(parser.df.rows) <= MAX_ROWS
        /\ Cardinality(parser.df.columns) >= MIN_COLS
        /\ Cardinality(parser.df.columns) <= MAX_COLS

\* C26: parse_file_contents never returns a table one of whose columns has
\* the placeholder name pandas gives a column with an empty header cell.
C26_PlaceholderRejected ==
    (parser.entry = "parse_file_contents" /\ parser.pc = "done") =>
        UnnamedHeader \notin parser.df.columns

\* No operation is under way.
Quiescent ==
    /\ \A t \in Threads : th[t].pc \in {"idle", "done"}
    /\ sw.pc = "sleep"

\* The places of the index lists that hold id.
Places(id) ==
    {<<c, k>> \in (DOMAIN client_sessions) \X (1..MaxIds) :
        k <= Len(client_sessions[c]) /\ client_sessions[c][k] = id}

\* get_client_sessions(c): the ids of c's index list that are live.
ListFor(c) ==
    IF c \in DOMAIN client_sessions
    THEN SelectSeq(client_sessions[c], LAMBDA id : id \in Live)
    ELSE <<>>

\* C28: between operations run one at a time, every live session id is held
\* exactly once, in the index list of its owner; every id held in an index
\* list is live; and get_total_sessions() is the sum over the owners of the
\* lengths of get_client_sessions(owner).
C28_StoreIndexAgree ==
    Quiescent =>
        /\ \A id \in Live :
              /\ Cardinality(Places(id)) = 1
              /\ \A pl \in Places(id) : pl[1] = objs[id].client_ip
        /\ \A c \in DOMAIN client_sessions :
              \A k \in 1..Len(client_sessions[c]) : client_sessions[c][k] \in Live
        /\ Len(sessions) = Len(ListFor("a")) + Len(ListFor("b"))

\* One owner's session has been removed and the other owner's is live.
C28_Witness ==
    /\ Quiescent
    /\ \E id \in DOMAIN deleted, other \in Live :
          objs[id].client_ip # objs[other].client_ip

\* Thread t has finished a create_session for client c.
Created(t, c) ==
    /\ th[t].op = "create"
    /\ th[t].pc = "done"
    /\ th[t].client_ip = c

\* A delete has removed id, or the sweep has found it expired and is
\* removing it.
Removed(id) == id \in DOMAIN deleted \/ id \in SeqToSet(sw.expired)

\* C27: when two creates by the same owner that were in flight together
\* have both finished, each of the two new ids that no delete or sweep has
\* removed since is in the store and in the owner's index list, so
\* get_client_sessions(owner) returns it.
C27_ConcurrentCreates ==
    \A c \in Clients :
        (Created("t1", c) /\ Created("t2", c)) =>
            \A t \in Threads :
                ~Removed(th[t].session_id) =>
                    /\ th[t].session_id \in Live
                    /\ th[t].session_id \in SeqToSet(ListFor(c))

\* Two creates by an owner with no index entry before them have finished
\* and the owner's list holds both ids.
C27_Witness ==
    /\ Created("t1", "a")
    /\ Created("t2", "a")
    /\ Len(ListFor("a")) = 2
    /\ DOMAIN client_sessions = {"a"}

\* C29: between requests, every live session whose table is set has a
\* row_count equal to the number of rows of the stored table and a
\* column_count equal to its number of columns, whatever uploads and
\* missing-value handle requests ran and however they interleaved.
C29_CountsMatchTable ==
    Quiescent =>
        \A id \in Live :
            objs[id].df # None =>
                /\ objs[id].row_count = objs[id].df.rows
                /\ objs[id].column_count = objs[id].df.cols

\* C30: an upload request that ended in an error response has left the
\* session store and the owner index as they were when it arrived.
C30_FailedUploadLeavesNothing ==
    \A t \in Threads :
        (th[t].op = "upload" /\ th[t].pc = "done" /\ th[t].ret.kind = "raise") =>
            /\ sessions = pre.sessions
            /\ client_sessions = pre.client_sessions
====
